---- MODULE Spec2Model ----
(***************************************************************************)
(* Verification model of the twitchchat message-record layer               *)
(* (src/messages/*.rs) and of the attribute decoder                        *)
(* (src/twitch/attributes.rs, src/twitch/flags.rs).                        *)
(*                                                                         *)
(* Text is a sequence of bytes.  A byte is written as a one-element        *)
(* string; "SOH" is the control byte 0x01, "u1" "u2" are the lead and the  *)
(* continuation byte of one two-byte UTF-8 character.  Offsets are         *)
(* zero-based and half-open, as in the Rust source.                        *)
(***************************************************************************)
EXTENDS Integers, Sequences, FiniteSets, TLC

VARIABLES msg, target, res, owned,
          input, pos, out, crashed,
          attrIn, attrOut,
          valKind, valIn, valOut

vars == <<msg, target, res, owned, input, pos, out, crashed, attrIn, attrOut,
          valKind, valIn, valOut>>

msgVars == <<msg, target, res, owned>>
streamVars == <<input, pos, out, crashed>>
attrVars == <<attrIn, attrOut>>
valVars == <<valKind, valIn, valOut>>

----------------------------------------------------------------------------
(* Bounds *)

\* longest exhaustively enumerated trailing data, in characters
MaxData == 3

\* longest stream of lines driven through the decoder
MaxLines == 3

----------------------------------------------------------------------------
(* Bytes and text *)

SOH == "SOH"
SP == " "

\* Option<T>: <<>> is None, <<v>> is Some(v)
None == <<>>
Some(v) == <<v>>
IsSome(o) == Len(o) = 1

RECURSIVE Concat(_)
Concat(ss) == IF ss = <<>> THEN <<>> ELSE Head(ss) \o Concat(Tail(ss))

\* str::is_char_boundary: offset i of s does not point at a continuation byte
IsCharBoundary(s, i) ==
    \/ i = 0
    \/ i = Len(s)
    \/ i > 0 /\ i < Len(s) /\ s[i + 1] # "u2"

\* &s[a..b] on a str: panics when a > b, b > len or an end is inside a character
StrSlice(s, a, b) ==
    IF a <= b /\ b <= Len(s) /\ IsCharBoundary(s, a) /\ IsCharBoundary(s, b)
    THEN [ok |-> TRUE, s |-> SubSeq(s, a + 1, b)]
    ELSE [ok |-> FALSE, s |-> <<>>]

\* str::starts_with(char) / str::ends_with(char)
StartsWith(s, c) == Len(s) > 0 /\ s[1] = c
EndsWith(s, c) == Len(s) > 0 /\ s[Len(s)] = c

\* char::len_utf8 of the character that starts with byte b
LenUtf8(b) == IF b = "u1" THEN 2 ELSE 1

\* data.chars().map(char::len_utf8).sum::<usize>()
RECURSIVE CharLenSum(_)
CharLenSum(s) ==
    IF s = <<>> THEN 0
    ELSE LenUtf8(s[1]) + CharLenSum(SubSeq(s, LenUtf8(s[1]) + 1, Len(s)))

\* str::find(char): byte offset of the first occurrence, None when absent
Find(s, c) ==
    IF \E i \in 1..Len(s) : s[i] = c
    THEN Some((CHOOSE i \in 1..Len(s) : s[i] = c /\ \A j \in 1..(i - 1) : s[j] # c) - 1)
    ELSE None

\* MaybeOwnedIndex: a pair of offsets into the raw buffer
Index(a, b) == [start |-> a, end |-> b]

\* &raw[index]
Slice(raw, index) == SubSeq(raw, index.start + 1, index.end)

----------------------------------------------------------------------------
(* The tokenized line (crate::irc, outside the repository's src/).  A line *)
(* is laid out as the tag values, the sender nick, the first parameter and *)
(* the trailing data, each present or absent; the record holds the raw     *)
(* buffer and the offset range of every part.                              *)

NickText == <<"n">>
ChanText == <<"#", "c">>

RECURSIVE TagValues(_)
TagValues(tags) ==
    IF tags = <<>> THEN <<>> ELSE Head(tags).val \o TagValues(Tail(tags))

RECURSIVE TagIndices(_, _)
TagIndices(tags, at) ==
    IF tags = <<>> THEN <<>>
    ELSE <<[key |-> Head(tags).key, val |-> Index(at, at + Len(Head(tags).val))]>>
         \o TagIndices(Tail(tags), at + Len(Head(tags).val))

\* the tokenizer's output for one line
IrcMessage(command, tags, hasNick, hasArg, data) ==
    LET tagText == TagValues(tags)
        nickAt == Len(tagText)
        argAt == nickAt + (IF hasNick THEN Len(NickText) ELSE 0)
        dataAt == argAt + (IF hasArg THEN Len(ChanText) ELSE 0)
    IN  [raw |-> tagText
                 \o (IF hasNick THEN NickText ELSE <<>>)
                 \o (IF hasArg THEN ChanText ELSE <<>>)
                 \o (IF IsSome(data) THEN data[1] ELSE <<>>),
         tags |-> TagIndices(tags, 0),
         command |-> command,
         nick |-> IF hasNick THEN Some(Index(nickAt, nickAt + Len(NickText))) ELSE None,
         args |-> IF hasArg THEN <<Index(argAt, argAt + Len(ChanText))>> ELSE <<>>,
         data |-> IF IsSome(data) THEN Some(Index(dataAt, dataAt + Len(data[1]))) ELSE None]

\* Result<T, MessageError>, plus the abort of the thread by a panic
Ok(rec) == [kind |-> "Ok", err |-> "", rec |-> rec]
Err(e) == [kind |-> "Err", err |-> e, rec |-> [type |-> "none"]]
Panic == [kind |-> "Panic", err |-> "", rec |-> [type |-> "none"]]
NoResult == [kind |-> "None", err |-> "", rec |-> [type |-> "none"]]

\* IrcMessage::expect_command
ExpectCommand(m, cmd) == m.command = cmd

\* Tags::get: the value of the first tag with this key
TagsGet(raw, tags, key) ==
    IF \E i \in 1..Len(tags) : tags[i].key = key
    THEN LET i == CHOOSE i \in 1..Len(tags) :
                     tags[i].key = key /\ \A j \in 1..(i - 1) : tags[j].key # key
         IN  Some(Slice(raw, tags[i].val))
    ELSE None

\* MaybeOwned: borrowed from the input line, or owning a copy of the bytes
Borrowed(bytes) == [storage |-> "Borrowed", bytes |-> bytes]
Owned(bytes) == [storage |-> "Owned", bytes |-> bytes]

\* MaybeOwned::into_owned copies the bytes, one by one
MaybeOwnedIntoOwned(m) == Owned([i \in 1..Len(m.bytes) |-> m.bytes[i]])

HexDigit == [d \in {"0", "2", "4", "D", "F"} |->
               CASE d = "0" -> 0 [] d = "2" -> 2 [] d = "4" -> 4
                 [] d = "D" -> 13 [] d = "F" -> 15]

\* the 24-bit value of six hex digits
RECURSIVE HexValue(_)
HexValue(s) ==
    IF s = <<>> THEN 0 ELSE HexValue(SubSeq(s, 1, Len(s) - 1)) * 16 + HexDigit[s[Len(s)]]

\* Color::from_str: #RRGGBB gives the RGB value, anything else an error
ColorFromStr(s) ==
    IF Len(s) = 7 /\ s[1] = "#" /\ \A i \in 2..7 : s[i] \in DOMAIN HexDigit
    THEN [ok |-> TRUE, rgb |-> HexValue(SubSeq(s, 2, 7))]
    ELSE [ok |-> FALSE, rgb |-> 0]

\* Color::default(): white
ColorDefault == HexValue(<<"F", "F", "F", "F", "F", "F">>)

----------------------------------------------------------------------------
(* Privmsg, src/messages/privmsg.rs *)

CTCP_MARKER == SOH
CTCP_ACTION == <<"A", "C", "T", "I", "O", "N">>

\* the struct literal of Privmsg::from_irc: the fields are evaluated in
\* source order, the first failing expect_* returns its error
PrivmsgBuild(m, index, ctcp) ==
    IF ~IsSome(m.nick) THEN Err("ExpectedNick")
    ELSE IF Len(m.args) < 1 THEN Err("ExpectedArg")
    ELSE Ok([type |-> "Privmsg",
             raw |-> Borrowed(m.raw),
             tags |-> m.tags,
             name |-> m.nick[1],
             channel |-> m.args[1],
             data |-> index,
             ctcp |-> ctcp])

\* mutant: the separating space is left in the data
PrivmsgCtcpSplitKeepsSpace(index, at) ==
    LET head == index.start + 1
    IN  [ctcp |-> Index(head, head + at),
         data |-> Index(index.start + at + 1, index.end - 1)]

\* mutant: the closing control byte is left in the data
PrivmsgCtcpSplitKeepsMarker(index, at) ==
    LET head == index.start + 1
    IN  [ctcp |-> Index(head, head + at),
         data |-> Index(index.start + at + 2, index.end)]

\* the Some(pos) arm: the CTCP command range and the narrowed data range
PrivmsgCtcpSplit(index, at) ==
    LET head == index.start + 1
    IN  [ctcp |-> Index(head, head + at),
         data |-> Index(index.start + at + 2, index.end - 1)]

\* mutant: one control byte, at either end, is taken for a CTCP wrapper
PrivmsgFromIrcEitherMarker(m) ==
    IF ~ExpectCommand(m, "PRIVMSG") THEN Err("InvalidCommand")
    ELSE IF ~IsSome(m.data) THEN Err("ExpectedData")
    ELSE LET index == m.data[1]
             data == Slice(m.raw, index)
         IN  IF StartsWith(data, CTCP_MARKER) \/ EndsWith(data, CTCP_MARKER)
             THEN LET len == CharLenSum(data)
                      interior == StrSlice(data, 1, len - 1)
                  IN  IF ~interior.ok THEN Panic
                      ELSE LET found == Find(interior.s, SP)
                           IN  IF IsSome(found)
                               THEN LET split == PrivmsgCtcpSplit(index, found[1])
                                    IN  PrivmsgBuild(m, split.data, Some(split.ctcp))
                               ELSE Err("ExpectedData")
             ELSE PrivmsgBuild(m, index, None)

PrivmsgFromIrc(m) ==
    IF ~ExpectCommand(m, "PRIVMSG") THEN Err("InvalidCommand")
    ELSE IF ~IsSome(m.data) THEN Err("ExpectedData")
    ELSE LET index == m.data[1]
             data == Slice(m.raw, index)
         IN  IF StartsWith(data, CTCP_MARKER) /\ EndsWith(data, CTCP_MARKER)
             THEN LET len == CharLenSum(data)
                      interior == StrSlice(data, 1, len - 1)
                  IN  IF ~interior.ok THEN Panic
                      ELSE LET found == Find(interior.s, SP)
                           IN  IF IsSome(found)
                               THEN LET split == PrivmsgCtcpSplit(index, found[1])
                                    IN  PrivmsgBuild(m, split.data, Some(split.ctcp))
                               ELSE Err("ExpectedData")
             ELSE PrivmsgBuild(m, index, None)

\* str_field!(data), str_field!(name), str_field!(channel)
PrivmsgData(r) == Slice(r.raw.bytes, r.data)
PrivmsgName(r) == Slice(r.raw.bytes, r.name)
PrivmsgChannel(r) == Slice(r.raw.bytes, r.channel)

\* mutant: any command that starts with ACTION is taken for an action
PrivmsgCtcpByPrefix(r) ==
    IF ~IsSome(r.ctcp) THEN None
    ELSE LET command == Slice(r.raw.bytes, r.ctcp[1])
         IN  IF Len(command) >= 6 /\ SubSeq(command, 1, 6) = CTCP_ACTION
             THEN Some([kind |-> "Action", command |-> <<>>])
             ELSE Some([kind |-> "Unknown", command |-> command])

\* Privmsg::ctcp
PrivmsgCtcp(r) ==
    IF ~IsSome(r.ctcp) THEN None
    ELSE LET command == Slice(r.raw.bytes, r.ctcp[1])
         IN  IF command = CTCP_ACTION
             THEN Some([kind |-> "Action", command |-> <<>>])
             ELSE Some([kind |-> "Unknown", command |-> command])

\* Privmsg::is_action
PrivmsgIsAction(r) ==
    LET c == PrivmsgCtcp(r) IN IsSome(c) /\ c[1].kind = "Action"

----------------------------------------------------------------------------
(* Whisper, UserState, RoomState, UserNotice, GlobalUserState *)

WhisperFromIrc(m) ==
    IF ~ExpectCommand(m, "WHISPER") THEN Err("InvalidCommand")
    ELSE IF ~IsSome(m.nick) THEN Err("ExpectedNick")
    ELSE IF ~IsSome(m.data) THEN Err("ExpectedData")
    ELSE Ok([type |-> "Whisper",
             raw |-> Borrowed(m.raw),
             tags |-> m.tags,
             name |-> m.nick[1],
             data |-> m.data[1]])

UserStateFromIrc(m) ==
    IF ~ExpectCommand(m, "USERSTATE") THEN Err("InvalidCommand")
    ELSE IF Len(m.args) < 1 THEN Err("ExpectedArg")
    ELSE Ok([type |-> "UserState",
             raw |-> Borrowed(m.raw),
             tags |-> m.tags,
             channel |-> m.args[1]])

RoomStateFromIrc(m) ==
    IF ~ExpectCommand(m, "ROOMSTATE") THEN Err("InvalidCommand")
    ELSE IF Len(m.args) < 1 THEN Err("ExpectedArg")
    ELSE Ok([type |-> "RoomState",
             raw |-> Borrowed(m.raw),
             tags |-> m.tags,
             channel |-> m.args[1]])

UserNoticeFromIrc(m) ==
    IF ~ExpectCommand(m, "USERNOTICE") THEN Err("InvalidCommand")
    ELSE IF Len(m.args) < 1 THEN Err("ExpectedArg")
    ELSE Ok([type |-> "UserNotice",
             raw |-> Borrowed(m.raw),
             tags |-> m.tags,
             channel |-> m.args[1],
             message |-> m.data])

\* mutant: the empty color value is parsed as well
GlobalUserStateColorNoFilter(m) ==
    LET got == TagsGet(m.raw, m.tags, "color")
    IN  IF IsSome(got)
        THEN LET c == ColorFromStr(got[1])
             IN  IF c.ok THEN [ok |-> TRUE, rgb |-> c.rgb]
                 ELSE [ok |-> FALSE, rgb |-> 0]
        ELSE [ok |-> TRUE, rgb |-> ColorDefault]

\* the color field of GlobalUserState::from_irc: get, filter non-empty,
\* from_str, transpose, map_err, ?, unwrap_or_default
GlobalUserStateColor(m) ==
    LET got == TagsGet(m.raw, m.tags, "color")
    IN  IF IsSome(got) /\ got[1] # <<>>
        THEN LET c == ColorFromStr(got[1])
             IN  IF c.ok THEN [ok |-> TRUE, rgb |-> c.rgb]
                 ELSE [ok |-> FALSE, rgb |-> 0]
        ELSE [ok |-> TRUE, rgb |-> ColorDefault]

\* Option<&str> to Option<MaybeOwned>, made owned
OwnedCopy(o) == IF IsSome(o) THEN Some(MaybeOwnedIntoOwned(Borrowed(o[1]))) ELSE None

GlobalUserStateFromIrc(m) ==
    IF ~ExpectCommand(m, "GLOBALUSERSTATE") THEN Err("InvalidCommand")
    ELSE LET color == GlobalUserStateColor(m)
         IN  IF ~color.ok THEN Err("CannotParseTag")
             ELSE Ok([type |-> "GlobalUserState",
                      raw |-> Borrowed(m.raw),
                      tags |-> m.tags,
                      user_id |-> OwnedCopy(TagsGet(m.raw, m.tags, "user-id")),
                      display_name |-> OwnedCopy(TagsGet(m.raw, m.tags, "display-name")),
                      color |-> color.rgb])

\* FromIrcMessage::from_irc of the target record type
RecordTypes ==
    {"Privmsg", "Whisper", "UserState", "RoomState", "UserNotice", "GlobalUserState"}

FromIrc(t, m) ==
    CASE t = "Privmsg" -> PrivmsgFromIrc(m)
      [] t = "Whisper" -> WhisperFromIrc(m)
      [] t = "UserState" -> UserStateFromIrc(m)
      [] t = "RoomState" -> RoomStateFromIrc(m)
      [] t = "UserNotice" -> UserNoticeFromIrc(m)
      [] t = "GlobalUserState" -> GlobalUserStateFromIrc(m)

----------------------------------------------------------------------------
(* Borrowed to owned: the into_owned! invocations *)

\* into_owned of an Option<MaybeOwned> field
OptionIntoOwned(o) == IF IsSome(o) THEN Some(MaybeOwnedIntoOwned(o[1])) ELSE None

\* mutant: the ctcp field is left out of the conversion
PrivmsgIntoOwnedNoCtcp(r) ==
    [type |-> "Privmsg",
     raw |-> MaybeOwnedIntoOwned(r.raw),
     tags |-> r.tags,
     name |-> r.name,
     channel |-> r.channel,
     data |-> r.data,
     ctcp |-> None]

PrivmsgIntoOwned(r) ==
    [type |-> "Privmsg",
     raw |-> MaybeOwnedIntoOwned(r.raw),
     tags |-> r.tags,
     name |-> r.name,
     channel |-> r.channel,
     data |-> r.data,
     ctcp |-> r.ctcp]

WhisperIntoOwned(r) ==
    [type |-> "Whisper",
     raw |-> MaybeOwnedIntoOwned(r.raw),
     tags |-> r.tags,
     name |-> r.name,
     data |-> r.data]

UserStateIntoOwned(r) ==
    [type |-> "UserState",
     raw |-> MaybeOwnedIntoOwned(r.raw),
     tags |-> r.tags,
     channel |-> r.channel]

RoomStateIntoOwned(r) ==
    [type |-> "RoomState",
     raw |-> MaybeOwnedIntoOwned(r.raw),
     tags |-> r.tags,
     channel |-> r.channel]

UserNoticeIntoOwned(r) ==
    [type |-> "UserNotice",
     raw |-> MaybeOwnedIntoOwned(r.raw),
     tags |-> r.tags,
     channel |-> r.channel,
     message |-> r.message]

GlobalUserStateIntoOwned(r) ==
    [type |-> "GlobalUserState",
     raw |-> MaybeOwnedIntoOwned(r.raw),
     tags |-> r.tags,
     user_id |-> OptionIntoOwned(r.user_id),
     display_name |-> OptionIntoOwned(r.display_name),
     color |-> r.color]

IntoOwned(r) ==
    CASE r.type = "Privmsg" -> PrivmsgIntoOwned(r)
      [] r.type = "Whisper" -> WhisperIntoOwned(r)
      [] r.type = "UserState" -> UserStateIntoOwned(r)
      [] r.type = "RoomState" -> RoomStateIntoOwned(r)
      [] r.type = "UserNotice" -> UserNoticeIntoOwned(r)
      [] r.type = "GlobalUserState" -> GlobalUserStateIntoOwned(r)

----------------------------------------------------------------------------
(* Accessors *)

\* Tags::get_parsed::<Color>: absent, present and invalid, present and valid
GetParsedColor(r) ==
    LET got == TagsGet(r.raw.bytes, r.tags, "color")
    IN  IF IsSome(got) THEN Some(ColorFromStr(got[1])) ELSE None

\* opt_str_field!(message)
UserNoticeMessage(r) ==
    IF IsSome(r.message) THEN Some(Slice(r.raw.bytes, r.message[1])) ELSE None

\* as_deref of an Option<MaybeOwned> field
AsDeref(o) == IF IsSome(o) THEN Some(o[1].bytes) ELSE None

\* mutant: tags are taken to be there when the user id is
GlobalUserStateHasTagsByUserId(r) == IsSome(r.user_id)

\* GlobalUserState::has_tags
GlobalUserStateHasTags(r) == r.tags # <<>>

\* what the public accessors of a record return
Accessors(r) ==
    CASE r.type = "Privmsg" ->
           [raw |-> r.raw.bytes,
            name |-> PrivmsgName(r),
            channel |-> PrivmsgChannel(r),
            data |-> PrivmsgData(r),
            ctcp |-> PrivmsgCtcp(r),
            is_action |-> PrivmsgIsAction(r),
            color |-> GetParsedColor(r)]
      [] r.type = "Whisper" ->
           [raw |-> r.raw.bytes,
            name |-> Slice(r.raw.bytes, r.name),
            data |-> Slice(r.raw.bytes, r.data),
            color |-> GetParsedColor(r)]
      [] r.type \in {"UserState", "RoomState"} ->
           [raw |-> r.raw.bytes,
            channel |-> Slice(r.raw.bytes, r.channel),
            color |-> GetParsedColor(r)]
      [] r.type = "UserNotice" ->
           [raw |-> r.raw.bytes,
            channel |-> Slice(r.raw.bytes, r.channel),
            message |-> UserNoticeMessage(r),
            color |-> GetParsedColor(r)]
      [] r.type = "GlobalUserState" ->
           [raw |-> r.raw.bytes,
            has_tags |-> GlobalUserStateHasTags(r),
            user_id |-> AsDeref(r.user_id),
            display_name |-> AsDeref(r.display_name),
            color |-> r.color]

----------------------------------------------------------------------------
(* The lines the decoder is run on *)

Chars == {<<SOH>>, <<SP>>, <<"x">>, <<"u1", "u2">>}

\* every text of exactly n characters
RECURSIVE TextsOfLen(_)
TextsOfLen(n) ==
    IF n = 0 THEN {<<>>}
    ELSE {c \o t : c \in Chars, t \in TextsOfLen(n - 1)}

ShortTexts == UNION {TextsOfLen(n) : n \in 0..MaxData}

Words == {CTCP_ACTION, CTCP_ACTION \o <<"S">>, <<"F", "O", "O">>}
Payloads == {<<>>, <<"x", SP, "x">>, <<"u1", "u2">>}

\* CTCP-shaped texts: wrapped, wrapped without a space, marker at one end only
WordTexts ==
    {<<SOH>> \o w \o <<SP>> \o p \o <<SOH>> : w \in Words, p \in Payloads}
    \cup {<<SOH>> \o w \o <<SOH>> : w \in Words}
    \cup {<<SOH>> \o w \o <<SP>> \o p : w \in Words, p \in Payloads}

DataTexts == ShortTexts \cup WordTexts

Commands ==
    {"PRIVMSG", "WHISPER", "USERSTATE", "ROOMSTATE", "USERNOTICE",
     "GLOBALUSERSTATE", "PING"}

Tag(k, v) == [key |-> k, val |-> v]

TagLists ==
    {<<>>,
     <<Tag("color", <<>>)>>,
     <<Tag("color", <<"#", "0", "D", "4", "2", "0", "0">>)>>,
     <<Tag("user-id", <<"4", "2">>), Tag("color", <<"#", "x">>)>>}

Lines ==
    {IrcMessage(c, t, n, a, d) :
        c \in Commands, t \in TagLists, n \in BOOLEAN, a \in BOOLEAN,
        d \in {None} \cup {Some(x) : x \in DataTexts}}

----------------------------------------------------------------------------
(* Spec: one line is decoded into a record of one type, and the record is  *)
(* converted to an owned one.                                              *)

NoLine == IrcMessage("", <<>>, FALSE, FALSE, None)

Init ==
    /\ msg \in Lines
    /\ target = "none"
    /\ res = NoResult
    /\ owned = None
    /\ input = <<>> /\ pos = 0 /\ out = <<>> /\ crashed = FALSE
    /\ attrIn = <<>> /\ attrOut = <<>>
    /\ valKind = "none" /\ valIn = <<>> /\ valOut = <<>>

Decode(t) ==
    /\ res.kind = "None"
    /\ target' = t
    /\ res' = FromIrc(t, msg)
    /\ UNCHANGED <<msg, owned, streamVars, attrVars, valVars>>

DecodePrivmsg == Decode("Privmsg")
DecodeWhisper == Decode("Whisper")
DecodeUserState == Decode("UserState")
DecodeRoomState == Decode("RoomState")
DecodeUserNotice == Decode("UserNotice")
DecodeGlobalUserState == Decode("GlobalUserState")

ConvertToOwned ==
    /\ res.kind = "Ok"
    /\ owned = None
    /\ owned' = Some(IntoOwned(res.rec))
    /\ UNCHANGED <<msg, target, res, streamVars, attrVars, valVars>>

Next ==
    \/ DecodePrivmsg
    \/ DecodeWhisper
    \/ DecodeUserState
    \/ DecodeRoomState
    \/ DecodeUserNotice
    \/ DecodeGlobalUserState
    \/ ConvertToOwned

Spec == Init /\ [][Next]_vars

----------------------------------------------------------------------------
(* Properties of the record layer, stated on the line that was decoded *)

Decoded(t) == target = t /\ res.kind # "None"

\* the trailing data of the decoded line, as the tokenizer delivered it
TrailingData == Slice(msg.raw, msg.data[1])

\* the line is a PRIVMSG with its sender, channel and trailing data
IsPrivmsgLine ==
    /\ msg.command = "PRIVMSG"
    /\ IsSome(msg.nick)
    /\ Len(msg.args) >= 1
    /\ IsSome(msg.data)

\* the data begins and ends with the control byte
Wrapped(d) == Len(d) >= 1 /\ d[1] = SOH /\ d[Len(d)] = SOH

\* the text between the first and the last byte
Interior(d) == SubSeq(d, 2, Len(d) - 1)

HasSpace(t) == \E i \in 1..Len(t) : t[i] = SP

FirstSpace(t) == CHOOSE i \in 1..Len(t) : t[i] = SP /\ \A j \in 1..(i - 1) : t[j] # SP

BeforeSpace(t) == SubSeq(t, 1, FirstSpace(t) - 1)
AfterSpace(t) == SubSeq(t, FirstSpace(t) + 1, Len(t))

\* C1: a PRIVMSG whose data is wrapped in 0x01 and whose interior contains a
\* space decodes successfully; the CTCP command is the interior before the
\* first space and data() is the interior after it, verbatim.
C1_CtcpSplit ==
    (Decoded("Privmsg") /\ IsPrivmsgLine /\ Wrapped(TrailingData)
        /\ HasSpace(Interior(TrailingData)))
    => /\ res.kind = "Ok"
       /\ IsSome(res.rec.ctcp)
       /\ Slice(res.rec.raw.bytes, res.rec.ctcp[1]) = BeforeSpace(Interior(TrailingData))
       /\ PrivmsgData(res.rec) = AfterSpace(Interior(TrailingData))

C1_Witness ==
    /\ Decoded("Privmsg") /\ IsPrivmsgLine
    /\ TrailingData = <<SOH, "F", "O", "O", SP, "x", SP, "x", SOH>>
    /\ res.kind = "Ok"
    /\ PrivmsgData(res.rec) = <<"x", SP, "x">>

\* C2: ctcp() is None when no command range is recorded, Action exactly when
\* the recorded command text is "ACTION", Unknown carrying the text otherwise;
\* is_action() is true iff ctcp() is Action.
C2_CtcpKind ==
    (Decoded("Privmsg") /\ res.kind = "Ok")
    => LET r == res.rec
           c == PrivmsgCtcp(r)
       IN  /\ ~IsSome(r.ctcp) => c = None
           /\ IsSome(r.ctcp) =>
                LET text == Slice(r.raw.bytes, r.ctcp[1])
                IN  /\ IsSome(c)
                    /\ c[1].kind = "Action" <=> text = <<"A", "C", "T", "I", "O", "N">>
                    /\ c[1].kind # "Action" =>
                           c[1].kind = "Unknown" /\ c[1].command = text
           /\ PrivmsgIsAction(r) <=> (IsSome(c) /\ c[1].kind = "Action")

C2_Witness ==
    /\ Decoded("Privmsg") /\ res.kind = "Ok"
    /\ PrivmsgCtcp(res.rec)
         = Some([kind |-> "Unknown", command |-> <<"A", "C", "T", "I", "O", "N", "S">>])
    /\ ~PrivmsgIsAction(res.rec)

\* C3: a PRIVMSG whose data begins and ends with 0x01 and whose interior
\* contains no space is answered with the decode error ExpectedData.
C3_NoSpaceIsError ==
    (Decoded("Privmsg") /\ msg.command = "PRIVMSG" /\ IsSome(msg.data)
        /\ Wrapped(TrailingData) /\ ~HasSpace(Interior(TrailingData)))
    => res = Err("ExpectedData")

\* C4: Privmsg::from_irc always returns a record or a typed error; no
\* trailing data makes it abort.
C4_NeverAborts ==
    Decoded("Privmsg") => res.kind \in {"Ok", "Err"}

\* C5: the tag values never decide whether a record is built: a line that
\* decodes to a record without its tags decodes to a record with them.
C5_TagsNeverFailConstruction ==
    (res.kind # "None" /\ FromIrc(target, [msg EXCEPT !.tags = <<>>]).kind = "Ok")
    => res.kind = "Ok"

\* the command of each record type
CommandOf(t) ==
    CASE t = "Privmsg" -> "PRIVMSG"
      [] t = "Whisper" -> "WHISPER"
      [] t = "UserState" -> "USERSTATE"
      [] t = "RoomState" -> "ROOMSTATE"
      [] t = "UserNotice" -> "USERNOTICE"
      [] t = "GlobalUserState" -> "GLOBALUSERSTATE"

\* the command matches and the fields the record type needs are present
RequiredPresent(t) ==
    /\ msg.command = CommandOf(t)
    /\ t \in {"Privmsg", "Whisper"} => IsSome(msg.nick) /\ IsSome(msg.data)
    /\ t \in {"Privmsg", "UserState", "RoomState", "UserNotice"} => Len(msg.args) >= 1

\* a CTCP wrapper, when there is one, has a space in its interior
CtcpWellFormed(t) ==
    (t = "Privmsg" /\ IsSome(msg.data) /\ Wrapped(TrailingData))
    => HasSpace(Interior(TrailingData))

\* C6: from_irc returns a typed error whenever the command does not match or
\* a required field is missing, and a record whenever the command matches,
\* the required fields are present and any CTCP wrapper is well formed.
C6_RequiredFields ==
    res.kind # "None"
    => /\ ~RequiredPresent(target) => res.kind = "Err"
       /\ (RequiredPresent(target) /\ CtcpWellFormed(target)) => res.kind = "Ok"

----------------------------------------------------------------------------
(* SpecStream: the line-to-record entry point driven over a stream of      *)
(* lines, as the loops of the tests do:                                    *)
(*     for msg in parse(input).map(|s| s.unwrap()) { T::from_irc(msg) }    *)

StreamLines ==
    {IrcMessage("PRIVMSG", <<>>, TRUE, TRUE, Some(<<"x">>)),
     IrcMessage("PRIVMSG", <<>>, TRUE, TRUE,
                Some(<<SOH>> \o CTCP_ACTION \o <<SP, "x", SOH>>)),
     IrcMessage("PRIVMSG", <<>>, TRUE, TRUE, Some(<<SOH, "x", SOH>>)),
     IrcMessage("PRIVMSG", <<>>, TRUE, TRUE, Some(<<SOH>>)),
     IrcMessage("PRIVMSG", <<>>, FALSE, TRUE, Some(<<"x">>)),
     IrcMessage("WHISPER", <<>>, TRUE, TRUE, Some(<<"x">>)),
     IrcMessage("GLOBALUSERSTATE", <<Tag("color", <<"#", "x">>)>>, FALSE, FALSE, None),
     IrcMessage("GLOBALUSERSTATE", <<>>, FALSE, FALSE, None)}

\* every stream of exactly n lines
RECURSIVE StreamsOfLen(_)
StreamsOfLen(n) ==
    IF n = 0 THEN {<<>>}
    ELSE {<<l>> \o t : l \in StreamLines, t \in StreamsOfLen(n - 1)}

InitStream ==
    /\ input \in UNION {StreamsOfLen(n) : n \in 1..MaxLines}
    /\ target \in RecordTypes
    /\ pos = 0
    /\ out = <<>>
    /\ crashed = FALSE
    /\ msg = NoLine /\ res = NoResult /\ owned = None
    /\ attrIn = <<>> /\ attrOut = <<>>
    /\ valKind = "none" /\ valIn = <<>> /\ valOut = <<>>

\* the next line is decoded and its result, a record or an error, is yielded
StreamYield ==
    /\ ~crashed
    /\ pos < Len(input)
    /\ FromIrc(target, input[pos + 1]).kind # "Panic"
    /\ out' = Append(out, FromIrc(target, input[pos + 1]))
    /\ pos' = pos + 1
    /\ UNCHANGED <<input, target, crashed, msg, res, owned, attrVars, valVars>>

\* decoding the next line panics: the loop is left, nothing more is yielded
StreamAbort ==
    /\ ~crashed
    /\ pos < Len(input)
    /\ FromIrc(target, input[pos + 1]).kind = "Panic"
    /\ crashed' = TRUE
    /\ pos' = pos + 1
    /\ UNCHANGED <<input, target, out, msg, res, owned, attrVars, valVars>>

NextStream == StreamYield \/ StreamAbort

SpecStream == InitStream /\ [][NextStream]_vars

\* C8: driving the decoder over a stream yields exactly one result per line,
\* in input order, each the result of its own line; the producer keeps
\* yielding until the input is exhausted.
C8_OneResultPerLine ==
    /\ Len(out) = pos
    /\ \A i \in 1..Len(out) : out[i] = FromIrc(target, input[i])
    /\ ~crashed

----------------------------------------------------------------------------
(* The attribute decoder, src/twitch/attributes.rs, and its Flag           *)
(* implementation, src/twitch/flags.rs.  "LF" is the byte 0x0A.            *)

\* bounds of the decoded tag values
MaxEntries == 3
MaxAttrs == 3

\* str::split(char): the pieces between the separators, at least one
RECURSIVE Split(_, _)
Split(s, sep) ==
    LET at == Find(s, sep)
    IN  IF IsSome(at)
        THEN <<SubSeq(s, 1, at[1])>> \o Split(SubSeq(s, at[1] + 2, Len(s)), sep)
        ELSE <<s>>

\* split_pair: the first two pieces of the split, the second empty when
\* there is no separator
split_pair(inp, sep) ==
    LET split == Split(inp, sep)
    IN  Some(<<split[1], IF Len(split) >= 2 THEN split[2] ELSE <<>>>>)

DigitValue == [d \in {"0", "1", "2", "3", "4", "5", "6", "7", "8", "9"} |->
                 CASE d = "0" -> 0 [] d = "1" -> 1 [] d = "2" -> 2 [] d = "3" -> 3
                   [] d = "4" -> 4 [] d = "5" -> 5 [] d = "6" -> 6 [] d = "7" -> 7
                   [] d = "8" -> 8 [] d = "9" -> 9]

RECURSIVE DecimalValue(_)
DecimalValue(s) ==
    IF s = <<>> THEN 0
    ELSE DecimalValue(SubSeq(s, 1, Len(s) - 1)) * 10 + DigitValue[s[Len(s)]]

\* str::parse for an unsigned integer type with the given maximum: an
\* optional '+', then one or more decimal digits, no overflow
ParseUnsigned(s, max) ==
    LET digits == IF Len(s) >= 1 /\ s[1] = "+" THEN Tail(s) ELSE s
    IN  IF /\ digits # <<>>
           /\ \A i \in 1..Len(digits) : digits[i] \in DOMAIN DigitValue
           /\ DecimalValue(digits) <= max
        THEN [ok |-> TRUE, v |-> DecimalValue(digits)]
        ELSE [ok |-> FALSE, v |-> 0]

U16_MAX == 65535
U8_MAX == 255

\* impl FromStr for Score
ScoreFromStr(s) ==
    LET pair == split_pair(s, ".")[1]
        score_type == pair[1]
        score == ParseUnsigned(pair[2], U8_MAX)
    IN  IF score_type \notin {<<"A">>, <<"I">>, <<"P">>, <<"S">>} THEN [ok |-> FALSE]
        ELSE IF ~score.ok THEN [ok |-> FALSE]
        ELSE [ok |-> TRUE,
              score |-> [type |-> CASE score_type = <<"A">> -> "Aggressive"
                                    [] score_type = <<"I">> -> "Identity"
                                    [] score_type = <<"P">> -> "Profanity"
                                    [] score_type = <<"S">> -> "Sexual",
                         severity |-> score.v]]

\* Flag::get_separator_info
FlagSeparatorInfo ==
    [element_separator |-> ",",
     range_attribute_separator |-> ":",
     attribute_separator |-> "/",
     range_separator |-> "LF",
     range_position |-> "Left"]

\* one "start-end" text to a range, or nothing
RangeOf(s) ==
    LET pair == split_pair(s, "-")[1]
        start == ParseUnsigned(pair[1], U16_MAX)
        end == ParseUnsigned(pair[2], U16_MAX)
    IN  IF start.ok /\ end.ok THEN Some([start |-> start.v, end |-> end.v]) ELSE None

RECURSIVE FilterMapRanges(_)
FilterMapRanges(pieces) ==
    IF pieces = <<>> THEN <<>>
    ELSE RangeOf(Head(pieces)) \o FilterMapRanges(Tail(pieces))

\* Attribute::parse_ranges
ParseRanges(info, inp) == FilterMapRanges(Split(inp, info.range_separator))

RECURSIVE FilterMapScores(_)
FilterMapScores(pieces) ==
    IF pieces = <<>> THEN <<>>
    ELSE LET s == ScoreFromStr(Head(pieces))
         IN  (IF s.ok THEN <<s.score>> ELSE <<>>) \o FilterMapScores(Tail(pieces))

\* mutant: one attribute that fails to parse discards them all
ParseAttributesAllOrNothing(info, inp) ==
    LET pieces == Split(inp, info.attribute_separator)
    IN  IF \A i \in 1..Len(pieces) : ScoreFromStr(pieces[i]).ok
        THEN FilterMapScores(pieces)
        ELSE <<>>

\* Attribute::parse_attributes
ParseAttributes(info, inp) == FilterMapScores(Split(inp, info.attribute_separator))

\* Flag::new: the first range and all the scores; nothing without a range
FlagNew(ranges, attributes) ==
    IF ranges = <<>> THEN None
    ELSE Some([range |-> ranges[1], scores |-> attributes])

\* Attribute::parse_item
ParseItem(info, item) ==
    LET pair == split_pair(item, info.range_attribute_separator)[1]
        ranges == IF info.range_position = "Left" THEN pair[1] ELSE pair[2]
        attributes == IF info.range_position = "Left" THEN pair[2] ELSE pair[1]
    IN  FlagNew(ParseRanges(info, ranges), ParseAttributes(info, attributes))

RECURSIVE FilterMapItems(_, _)
FilterMapItems(info, pieces) ==
    IF pieces = <<>> THEN <<>>
    ELSE ParseItem(info, Head(pieces)) \o FilterMapItems(info, Tail(pieces))

RECURSIVE TakeWhileItems(_, _)
TakeWhileItems(info, pieces) ==
    IF pieces = <<>> THEN <<>>
    ELSE IF ParseItem(info, Head(pieces)) = None THEN <<>>
    ELSE ParseItem(info, Head(pieces)) \o TakeWhileItems(info, Tail(pieces))

\* mutant: decoding stops at the first item that does not parse
AttributeParseStopsAtFailure(info, inp) ==
    TakeWhileItems(info, Split(inp, info.element_separator))

\* Attribute::parse
AttributeParse(info, inp) ==
    FilterMapItems(info, Split(inp, info.element_separator))

\* impl FromStr for AttributeVec: always Ok
AttributeVecFromStr(info, inp) == [kind |-> "Ok", items |-> AttributeParse(info, inp)]

----------------------------------------------------------------------------
(* SpecAttr: a flags tag value is decoded *)

\* the pieces joined with the separator between them
RECURSIVE Join(_, _)
Join(pieces, sep) ==
    IF pieces = <<>> THEN <<>>
    ELSE IF Len(pieces) = 1 THEN pieces[1]
    ELSE pieces[1] \o <<sep>> \o Join(Tail(pieces), sep)

\* every sequence of exactly n elements of S
RECURSIVE SeqsOfLen(_, _)
SeqsOfLen(S, n) ==
    IF n = 0 THEN {<<>>}
    ELSE {<<x>> \o t : x \in S, t \in SeqsOfLen(S, n - 1)}

EntryTexts ==
    {<<"0", "-", "3", ":", "A", ".", "1">>,
     <<"x", ":", "A", ".", "1">>,
     <<"1", "2", "-", "1", "5">>,
     <<>>,
     <<"4", "-", "8", ":", "x", "/", "S", ".", "9">>,
     <<"0", "-", "3", ":", "A", ".", "1", ":", "/", "S", ".", "9">>,
     <<"5", "-", "3", ":", "A", ".", "1">>}

RefTexts ==
    {<<"0", "-", "3">>,
     <<"x">>,
     <<"3", "-">>,
     <<"0", "-", "3", "-", "5">>,
     <<"x", "LF", "1", "-", "2">>}

ScoreTexts ==
    {<<"A", ".", "1">>, <<"I", ".", "2">>, <<"P", ".", "3">>, <<"S", ".", "9">>,
     <<"x">>, <<>>, <<"Q", ".", "1">>, <<"A", ".", "3", "0", "0">>, <<"A">>,
     <<"A", ".", "1", "0">>}

\* tag values of several entries, and single entries with many attributes
ManyEntries ==
    {Join(e, ",") : e \in UNION {SeqsOfLen(EntryTexts, n) : n \in 1..MaxEntries}}

OneEntry ==
    RefTexts
    \cup {r \o <<":">> \o Join(a, "/") :
            r \in RefTexts, a \in UNION {SeqsOfLen(ScoreTexts, n) : n \in 1..MaxAttrs}}

NotDecoded == [kind |-> "None", items |-> <<>>]

InitAttr ==
    /\ attrIn \in ManyEntries \cup OneEntry
    /\ attrOut = NotDecoded
    /\ msg = NoLine /\ target = "none" /\ res = NoResult /\ owned = None
    /\ input = <<>> /\ pos = 0 /\ out = <<>> /\ crashed = FALSE
    /\ valKind = "none" /\ valIn = <<>> /\ valOut = <<>>

\* Privmsg::flags on a line whose flags tag holds attrIn
DecodeFlags ==
    /\ attrOut.kind = "None"
    /\ attrOut' = AttributeVecFromStr(FlagSeparatorInfo, attrIn)
    /\ UNCHANGED <<attrIn, msgVars, streamVars, valVars>>

NextAttr == DecodeFlags

SpecAttr == InitAttr /\ [][NextAttr]_vars

\* the separator-delimited pieces of the decoded tag value
Pieces == Split(attrIn, ",")

\* the reference of a piece (its range text, left of ':') parses
RefParses(e) == ParseRanges(FlagSeparatorInfo, split_pair(e, ":")[1][1]) # <<>>

\* the pieces whose reference parses, in order of appearance
KeptPieces == SelectSeq(Pieces, RefParses)

\* C9: decoding returns no error and, in order of appearance, exactly one
\* entry for each piece whose reference parses: the entry that piece gives
\* on its own.  The other pieces are dropped.
C9_EntriesInOrder ==
    attrOut.kind # "None"
    => /\ attrOut.kind = "Ok"
       /\ Len(attrOut.items) = Len(KeptPieces)
       /\ \A k \in 1..Len(KeptPieces) :
              Some(attrOut.items[k]) = ParseItem(FlagSeparatorInfo, KeptPieces[k])

C9_Witness ==
    /\ attrOut.kind = "Ok"
    /\ attrIn = <<"0", "-", "3", ":", "A", ".", "1">> \o <<",">>
                \o <<"x", ":", "A", ".", "1">> \o <<",">>
                \o <<"1", "2", "-", "1", "5">>
    /\ Len(Pieces) = 3
    /\ Len(attrOut.items) = 2
    /\ attrOut.items[1].range = [start |-> 0, end |-> 3]
    /\ attrOut.items[2].range = [start |-> 12, end |-> 15]

ScoreParses(t) == ScoreFromStr(t).ok

\* the scores of the attribute texts that parse, in order of appearance
SurvivingScores(attrs) ==
    LET good == SelectSeq(Split(attrs, "/"), ScoreParses)
    IN  [i \in 1..Len(good) |-> ScoreFromStr(good[i]).score]

\* C10: an entry whose reference parses is returned with exactly the
\* attributes that parse, in their order; the ones that fail are omitted
\* and the entry stays, even with no attribute left.
C10_AttributesIndependent ==
    attrOut.kind # "None"
    => /\ Len(attrOut.items) = Len(KeptPieces)
       /\ \A k \in 1..Len(KeptPieces) :
              attrOut.items[k].scores
                 = SurvivingScores(split_pair(KeptPieces[k], ":")[1][2])

C10_Witness ==
    /\ attrOut.kind = "Ok"
    /\ attrIn = <<"0", "-", "3", ":">> \o <<"A", ".", "1">> \o <<"/">>
                \o <<"Q", ".", "1">> \o <<"/">> \o <<"S", ".", "9">>
    /\ Len(attrOut.items) = 1
    /\ attrOut.items[1].scores
          = <<[type |-> "Aggressive", severity |-> 1], [type |-> "Sexual", severity |-> 9]>>

----------------------------------------------------------------------------
(* How an entry and a score are taken apart *)

\* the text before the first occurrence of sep, the whole text without one
BeforeFirst(s, sep) ==
    LET at == Find(s, sep)
    IN  IF IsSome(at) THEN SubSeq(s, 1, at[1]) ELSE s

\* the text after the first occurrence of sep, nothing without one
AfterFirst(s, sep) ==
    LET at == Find(s, sep)
    IN  IF IsSome(at) THEN SubSeq(s, at[1] + 2, Len(s)) ELSE <<>>

\* C11: every entry is split once on the reference/attribute separator:
\* the reference text is everything before its first occurrence and the
\* attribute text everything after it, later occurrences included; an
\* entry without the separator is all reference text, with no attribute text.
C11_SplitOnce ==
    attrOut.kind # "None"
    => \A k \in 1..Len(Pieces) :
           split_pair(Pieces[k], ":")
              = Some(<<BeforeFirst(Pieces[k], ":"), AfterFirst(Pieces[k], ":")>>)

\* the attribute texts of a piece, as parse_item hands them to the score parser
AttributeTexts(e) == Split(split_pair(e, ":")[1][2], "/")

\* a text of the form TYPE.SEVERITY, TYPE one of A, I, P, S and SEVERITY a
\* number from 0 to 9
IsScoreForm(t) ==
    /\ IsSome(Find(t, "."))
    /\ BeforeFirst(t, ".") \in {<<"A">>, <<"I">>, <<"P">>, <<"S">>}
    /\ ParseUnsigned(AfterFirst(t, "."), 9).ok

\* C12: a score is accepted exactly when its text has the form
\* TYPE.SEVERITY with TYPE one of A, I, P, S and SEVERITY from 0 to 9, so
\* every score of a decoded flag has a severity from 0 to 9.
C12_ScoreForm ==
    attrOut.kind # "None"
    => /\ \A k \in 1..Len(KeptPieces) :
              \A j \in 1..Len(AttributeTexts(KeptPieces[k])) :
                  LET t == AttributeTexts(KeptPieces[k])[j]
                  IN  ScoreFromStr(t).ok <=> IsScoreForm(t)
       /\ \A k \in 1..Len(attrOut.items) :
              \A j \in 1..Len(attrOut.items[k].scores) :
                  attrOut.items[k].scores[j].severity \in 0..9

----------------------------------------------------------------------------
(* Unsigned 64-bit integers.  A u64 is kept as U64_BYTES digits of base   *)
(* BYTE_BASE, least significant first, so that parsing and multiplying    *)
(* overflow where the machine integer does.                               *)

U64_BYTES == 8
BYTE_BASE == 256

\* n as a little-endian number of k digits (the value modulo BYTE_BASE^k)
RECURSIVE IntToBytes(_, _)
IntToBytes(n, k) ==
    IF k = 0 THEN <<>> ELSE <<n % BYTE_BASE>> \o IntToBytes(n \div BYTE_BASE, k - 1)

U64(n) == IntToBytes(n, U64_BYTES)

\* the value of a u64 that is small enough to be written as a model integer
RECURSIVE U64ToInt(_)
U64ToInt(l) ==
    IF l = <<>> \/ (\A i \in 1..Len(l) : l[i] = 0) THEN 0
    ELSE l[1] + BYTE_BASE * U64ToInt(Tail(l))

\* l * m + c in fixed width: the low digits and the carry out of the top one
RECURSIVE MulAdd(_, _, _)
MulAdd(l, m, c) ==
    IF l = <<>> THEN [v |-> <<>>, carry |-> c]
    ELSE LET t == l[1] * m + c
             rest == MulAdd(Tail(l), m, t \div BYTE_BASE)
         IN  [v |-> <<t % BYTE_BASE>> \o rest.v, carry |-> rest.carry]

\* the decimal digits folded into acc, failing at the first overflow
RECURSIVE U64Digits(_, _)
U64Digits(digits, acc) ==
    IF digits = <<>> THEN [ok |-> TRUE, v |-> acc]
    ELSE LET next == MulAdd(acc, 10, DigitValue[Head(digits)])
         IN  IF next.carry # 0 THEN [ok |-> FALSE, v |-> U64(0)]
             ELSE U64Digits(Tail(digits), next.v)

\* u64::from_str: an optional '+', then one or more decimal digits, no overflow
U64FromStr(s) ==
    LET digits == IF Len(s) >= 1 /\ s[1] = "+" THEN Tail(s) ELSE s
    IN  IF /\ digits # <<>>
           /\ \A i \in 1..Len(digits) : digits[i] \in DOMAIN DigitValue
        THEN U64Digits(digits, U64(0))
        ELSE [ok |-> FALSE, v |-> U64(0)]

\* usize::from_str on a 64-bit target, the value as a model integer
UsizeFromStr(s) ==
    LET parsed == U64FromStr(s)
    IN  [ok |-> parsed.ok, v |-> IF parsed.ok THEN U64ToInt(parsed.v) ELSE 0]

----------------------------------------------------------------------------
(* Emotes: the attribution framework specialised to Emote *)

\* MsgRange from a "start-end" text
MsgRangeFromStr(s) ==
    LET start == ParseUnsigned(BeforeFirst(s, "-"), U16_MAX)
        end == ParseUnsigned(AfterFirst(s, "-"), U16_MAX)
    IN  IF IsSome(Find(s, "-")) /\ start.ok /\ end.ok
        THEN Some([start |-> start.v, end |-> end.v])
        ELSE None

EmoteSeparatorInfoSwapped ==
    [attribution_separator |-> ",",
     range_attribute_separator |-> ":",
     attribute_separator |-> "/"]

EmoteSeparatorInfo ==
    [attribution_separator |-> "/",
     range_attribute_separator |-> ":",
     attribute_separator |-> ","]

EmoteNew(reference, attributes) == [id |-> reference, ranges |-> attributes]

\* the attributes that parse, in order
RECURSIVE FilterMapMsgRanges(_)
FilterMapMsgRanges(texts) ==
    IF texts = <<>> THEN <<>>
    ELSE MsgRangeFromStr(Head(texts)) \o FilterMapMsgRanges(Tail(texts))

\* one entry: the reference must parse, the attributes that fail are dropped
EmoteParse(item) ==
    LET info == EmoteSeparatorInfo
        reference == UsizeFromStr(BeforeFirst(item, info.range_attribute_separator))
        attrs == AfterFirst(item, info.range_attribute_separator)
    IN  IF reference.ok
        THEN Some(EmoteNew(reference.v,
                           FilterMapMsgRanges(Split(attrs, info.attribute_separator))))
        ELSE None

RECURSIVE FilterMapEmotes(_)
FilterMapEmotes(items) ==
    IF items = <<>> THEN <<>>
    ELSE EmoteParse(Head(items)) \o FilterMapEmotes(Tail(items))

\* EmoteVec::from_str: the entries that decode, in order of appearance
EmoteVecFromStr(inp) ==
    FilterMapEmotes(Split(inp, EmoteSeparatorInfo.attribution_separator))

EmoteEntryTexts ==
    {<<"2", "5", ":", "0", "-", "4", ",", "6", "-", "1", "0">>,
     <<"3", "3", ":", "1", "2", "-", "1", "9">>,
     <<"x", ":", "0", "-", "4">>,
     <<"2", "5">>,
     <<"2", "5", ":", "0", "-", "4", ",", "x", ",", "8", "-", "9">>,
     <<>>}

EmoteTexts ==
    {Join(e, "/") : e \in UNION {SeqsOfLen(EmoteEntryTexts, n) : n \in 1..MaxEntries}}

----------------------------------------------------------------------------
(* Badges *)

\* the kind matched on the text before the first '/'
BadgeKindOf(badge) ==
    CASE
           badge = <<"a", "d", "m", "i", "n">> -> [variant |-> "Admin"]
        [] badge = <<"b", "i", "t", "s">> -> [variant |-> "Bits"]
        [] badge = <<"b", "r", "o", "a", "d", "c", "a", "s", "t", "e", "r">> -> [variant |-> "Broadcaster"]
        [] badge = <<"g", "l", "o", "b", "a", "l", "_", "m", "o", "d">> -> [variant |-> "GlobalMod"]
        [] badge = <<"m", "o", "d", "e", "r", "a", "t", "o", "r">> -> [variant |-> "Moderator"]
        [] badge = <<"s", "u", "b", "s", "c", "r", "i", "b", "e", "r">> -> [variant |-> "Subscriber"]
        [] badge = <<"s", "t", "a", "f", "f">> -> [variant |-> "Staff"]
        [] badge = <<"t", "u", "r", "b", "o">> -> [variant |-> "Turbo"]
        [] badge = <<"p", "r", "e", "m", "i", "u", "m">> -> [variant |-> "Premium"]
        [] badge = <<"v", "i", "p">> -> [variant |-> "Vip"]
        [] badge = <<"p", "a", "r", "t", "n", "e", "r">> -> [variant |-> "Partner"]
        [] OTHER -> [variant |-> "Unknown", name |-> badge]

\* Badge::parse, with the data taken to be everything after the first '/'
BadgeParseRestAsData(inp) ==
    IF IsSome(Find(inp, "/"))
    THEN Some([kind |-> BadgeKindOf(BeforeFirst(inp, "/")), data |-> AfterFirst(inp, "/")])
    ELSE None

\* Badge::parse
BadgeParse(inp) ==
    LET iter == Split(inp, "/")
        kind == BadgeKindOf(iter[1])
    IN  IF Len(iter) >= 2 THEN Some([kind |-> kind, data |-> iter[2]]) ELSE None

\* Badge::kind_raw
BadgeKindRaw(badge) ==
    CASE
           badge.kind.variant = "Admin" -> <<"a", "d", "m", "i", "n">>
        [] badge.kind.variant = "Bits" -> <<"b", "i", "t", "s">>
        [] badge.kind.variant = "Broadcaster" -> <<"b", "r", "o", "a", "d", "c", "a", "s", "t", "e", "r">>
        [] badge.kind.variant = "GlobalMod" -> <<"g", "l", "o", "b", "a", "l", "_", "m", "o", "d">>
        [] badge.kind.variant = "Moderator" -> <<"m", "o", "d", "e", "r", "a", "t", "o", "r">>
        [] badge.kind.variant = "Subscriber" -> <<"s", "u", "b", "s", "c", "r", "i", "b", "e", "r">>
        [] badge.kind.variant = "Staff" -> <<"s", "t", "a", "f", "f">>
        [] badge.kind.variant = "Turbo" -> <<"t", "u", "r", "b", "o">>
        [] badge.kind.variant = "Premium" -> <<"p", "r", "e", "m", "i", "u", "m">>
        [] badge.kind.variant = "Vip" -> <<"v", "i", "p">>
        [] badge.kind.variant = "Partner" -> <<"p", "a", "r", "t", "n", "e", "r">>
        [] OTHER -> badge.kind.name

\* parse_badges and parse_badges_iter: the items that decode, in order
RECURSIVE FilterMapBadges(_)
FilterMapBadges(items) ==
    IF items = <<>> THEN <<>>
    ELSE BadgeParse(Head(items)) \o FilterMapBadges(Tail(items))

ParseBadges(inp) == FilterMapBadges(Split(inp, ","))

\* BadgesIter::new over the comma-separated items of a badge list
BadgesIterNew(inp) == [items |-> Some(Split(inp, ","))]

\* BadgesIter::next: the iterator after the call and the item returned
BadgesIterNext(iter) ==
    IF ~IsSome(iter.items) THEN [iter |-> iter, item |-> None]
    ELSE IF iter.items[1] = <<>> THEN [iter |-> iter, item |-> None]
    ELSE [iter |-> [items |-> Some(Tail(iter.items[1]))],
          item |-> BadgeParse(Head(iter.items[1]))]

KnownBadgeNames ==
    {<<"a", "d", "m", "i", "n">>,
     <<"b", "i", "t", "s">>,
     <<"b", "r", "o", "a", "d", "c", "a", "s", "t", "e", "r">>,
     <<"g", "l", "o", "b", "a", "l", "_", "m", "o", "d">>,
     <<"m", "o", "d", "e", "r", "a", "t", "o", "r">>,
     <<"s", "u", "b", "s", "c", "r", "i", "b", "e", "r">>,
     <<"s", "t", "a", "f", "f">>,
     <<"t", "u", "r", "b", "o">>,
     <<"p", "r", "e", "m", "i", "u", "m">>,
     <<"v", "i", "p">>,
     <<"p", "a", "r", "t", "n", "e", "r">>}

BadgeNameTexts ==
    KnownBadgeNames \cup {<<"u", "n", "k", "n", "o", "w", "n">>, <<>>, <<"B", "i", "t", "s">>}

BadgeDataTexts ==
    {<<"0">>, <<"6">>, <<"1", "0", "0">>, <<"3", "0", "0", "1">>, <<>>,
     <<"1", "/", "x">>, <<"/">>}

\* single badges, with and without a '/'
BadgeTexts ==
    BadgeNameTexts \cup {n \o <<"/">> \o d : n \in BadgeNameTexts, d \in BadgeDataTexts}

BadgeItemTexts ==
    {<<"b", "i", "t", "s", "/", "1", "0", "0">>, <<"s", "u", "b", "s", "c", "r", "i", "b", "e", "r", "/", "6">>, <<"b", "r", "o", "k", "e", "n">>, <<"v", "i", "p", "/", "1", "/", "x">>, <<>>}

\* badge lists, well-formed and malformed items mixed
BadgeListTexts ==
    {Join(e, ",") : e \in UNION {SeqsOfLen(BadgeItemTexts, n) : n \in 1..MaxEntries}}

----------------------------------------------------------------------------
(* Tag value decoders *)

SECS_PER_DAY == 86400

\* FollowersOnly::from_str.  With overflow checks (a debug build) a product
\* that does not fit a u64 panics, without them it wraps.
FollowersOnlyFromStr(s, overflow_checks) ==
    IF s = <<"-", "1">> THEN [kind |-> "Ok", value |-> [variant |-> "Disabled"]]
    ELSE IF s = <<"0">> THEN [kind |-> "Ok", value |-> [variant |-> "All"]]
    ELSE LET x == U64FromStr(s)
             secs == MulAdd(x.v, SECS_PER_DAY, 0)
         IN  IF ~x.ok THEN [kind |-> "Err", value |-> [variant |-> "ParseIntError"]]
             ELSE IF secs.carry # 0 /\ overflow_checks
             THEN [kind |-> "Panic", value |-> [variant |-> "Overflow"]]
             ELSE [kind |-> "Ok", value |-> [variant |-> "Limit", secs |-> secs.v]]

\* SubPlan::from_str, derived: the variants are tried in declaration order
SubPlanFromStr(s) ==
    CASE s = <<"P", "r", "i", "m", "e">> -> [variant |-> "Prime"]
      [] s = <<"1", "0", "0", "0">> -> [variant |-> "Tier1"]
      [] s = <<"2", "0", "0", "0">> -> [variant |-> "Tier2"]
      [] s = <<"3", "0", "0", "0">> -> [variant |-> "Tier3"]
      [] OTHER -> [variant |-> "Unknown", text |-> s]

\* NoticeType::from_str with the variant names in snake case
NoticeTypeFromStrSnakeCase(s) ==
    CASE
           s = <<"s", "u", "b">> -> [variant |-> "Sub"]
        [] s = <<"r", "e", "s", "u", "b">> -> [variant |-> "Resub"]
        [] s = <<"s", "u", "b", "_", "g", "i", "f", "t">> -> [variant |-> "SubGift"]
        [] s = <<"a", "n", "o", "n", "_", "s", "u", "b", "_", "g", "i", "f", "t">> -> [variant |-> "AnonSubGift"]
        [] s = <<"s", "u", "b", "_", "m", "y", "s", "t", "e", "r", "y", "_", "g", "i", "f", "t">> -> [variant |-> "SubMysteryGift"]
        [] s = <<"g", "i", "f", "t", "_", "p", "a", "i", "d", "_", "u", "p", "g", "r", "a", "d", "e">> -> [variant |-> "GiftPaidUpgrade"]
        [] s = <<"r", "e", "w", "a", "r", "d", "_", "g", "i", "f", "t">> -> [variant |-> "RewardGift"]
        [] s = <<"a", "n", "o", "n", "_", "g", "i", "f", "t", "_", "p", "a", "i", "d", "_", "u", "p", "g", "r", "a", "d", "e">> -> [variant |-> "AnonGiftPaidUpgrade"]
        [] s = <<"r", "a", "i", "d">> -> [variant |-> "Raid"]
        [] s = <<"u", "n", "r", "a", "i", "d">> -> [variant |-> "Unraid"]
        [] s = <<"r", "i", "t", "u", "a", "l">> -> [variant |-> "Ritual"]
        [] s = <<"b", "i", "t", "s", "_", "b", "a", "d", "g", "e", "_", "t", "i", "e", "r">> -> [variant |-> "BitsBadgeTier"]
        [] OTHER -> [variant |-> "Unknown", text |-> s]

\* NoticeType::from_str, derived with style = "lowercase" and a catch-all
NoticeTypeFromStr(s) ==
    CASE
           s = <<"s", "u", "b">> -> [variant |-> "Sub"]
        [] s = <<"r", "e", "s", "u", "b">> -> [variant |-> "Resub"]
        [] s = <<"s", "u", "b", "g", "i", "f", "t">> -> [variant |-> "SubGift"]
        [] s = <<"a", "n", "o", "n", "s", "u", "b", "g", "i", "f", "t">> -> [variant |-> "AnonSubGift"]
        [] s = <<"s", "u", "b", "m", "y", "s", "t", "e", "r", "y", "g", "i", "f", "t">> -> [variant |-> "SubMysteryGift"]
        [] s = <<"g", "i", "f", "t", "p", "a", "i", "d", "u", "p", "g", "r", "a", "d", "e">> -> [variant |-> "GiftPaidUpgrade"]
        [] s = <<"r", "e", "w", "a", "r", "d", "g", "i", "f", "t">> -> [variant |-> "RewardGift"]
        [] s = <<"a", "n", "o", "n", "g", "i", "f", "t", "p", "a", "i", "d", "u", "p", "g", "r", "a", "d", "e">> -> [variant |-> "AnonGiftPaidUpgrade"]
        [] s = <<"r", "a", "i", "d">> -> [variant |-> "Raid"]
        [] s = <<"u", "n", "r", "a", "i", "d">> -> [variant |-> "Unraid"]
        [] s = <<"r", "i", "t", "u", "a", "l">> -> [variant |-> "Ritual"]
        [] s = <<"b", "i", "t", "s", "b", "a", "d", "g", "e", "t", "i", "e", "r">> -> [variant |-> "BitsBadgeTier"]
        [] OTHER -> [variant |-> "Unknown", text |-> s]

NoticeTypeNames ==
    {<<"s", "u", "b">>,
     <<"r", "e", "s", "u", "b">>,
     <<"s", "u", "b", "g", "i", "f", "t">>,
     <<"a", "n", "o", "n", "s", "u", "b", "g", "i", "f", "t">>,
     <<"s", "u", "b", "m", "y", "s", "t", "e", "r", "y", "g", "i", "f", "t">>,
     <<"g", "i", "f", "t", "p", "a", "i", "d", "u", "p", "g", "r", "a", "d", "e">>,
     <<"r", "e", "w", "a", "r", "d", "g", "i", "f", "t">>,
     <<"a", "n", "o", "n", "g", "i", "f", "t", "p", "a", "i", "d", "u", "p", "g", "r", "a", "d", "e">>,
     <<"r", "a", "i", "d">>,
     <<"u", "n", "r", "a", "i", "d">>,
     <<"r", "i", "t", "u", "a", "l">>,
     <<"b", "i", "t", "s", "b", "a", "d", "g", "e", "t", "i", "e", "r">>}

NoticeTypeTexts ==
    NoticeTypeNames
    \cup {<<"S", "u", "b">>, <<"S", "U", "B">>, <<"s", "u", "b", "_", "g", "i", "f", "t">>, <<"s", "u", "b", "s">>, <<"h", "o", "s", "t">>, <<"s", "u", "b", " ">>, <<>>}

DayChars == {"0", "1", "4", "+", "-"}

\* short day counts, signed and unsigned, and the counts around the u64 limits
FollowersOnlyTexts ==
    UNION {SeqsOfLen(DayChars, n) : n \in 0..MaxData}
    \cup {<<"!">>, <<"i", "n", "v", "a", "l", "i", "d">>, <<"3", "1", "4", "1", "5">>,
          <<"2", "1", "3", "5", "0", "3", "9", "8", "2", "3", "3", "4", "6", "0", "1">>, <<"2", "1", "3", "5", "0", "3", "9", "8", "2", "3", "3", "4", "6", "0", "2">>,
          <<"1", "8", "4", "4", "6", "7", "4", "4", "0", "7", "3", "7", "0", "9", "5", "5", "1", "6", "1", "5">>, <<"1", "8", "4", "4", "6", "7", "4", "4", "0", "7", "3", "7", "0", "9", "5", "5", "1", "6", "1", "6">>}

----------------------------------------------------------------------------
(* SpecValue: one tag value is decoded by the decoder of its kind *)

InitValue ==
    /\ \/ valKind = "emotes" /\ valIn \in EmoteTexts
       \/ valKind = "badge" /\ valIn \in BadgeTexts
       \/ valKind = "badges" /\ valIn \in BadgeListTexts
       \/ valKind = "followers" /\ valIn \in FollowersOnlyTexts
       \/ valKind = "notice" /\ valIn \in NoticeTypeTexts
    /\ valOut = None
    /\ msg = NoLine /\ target = "none" /\ res = NoResult /\ owned = None
    /\ input = <<>> /\ pos = 0 /\ out = <<>> /\ crashed = FALSE
    /\ attrIn = <<>> /\ attrOut = <<>>

\* EmoteVec::from_str on the value of an emotes tag
DecodeEmotes ==
    /\ valKind = "emotes"
    /\ valOut = None
    /\ valOut' = Some(EmoteVecFromStr(valIn))
    /\ UNCHANGED <<valKind, valIn, msgVars, streamVars, attrVars>>

\* Badge::parse on one badge text
DecodeBadge ==
    /\ valKind = "badge"
    /\ valOut = None
    /\ valOut' = Some(BadgeParse(valIn))
    /\ UNCHANGED <<valKind, valIn, msgVars, streamVars, attrVars>>

\* a for loop is set up over BadgesIter
IterBadgesNew ==
    /\ valKind = "badges"
    /\ valOut = None
    /\ valOut' = Some([iter |-> BadgesIterNew(valIn), yielded |-> <<>>, ended |-> FALSE])
    /\ UNCHANGED <<valKind, valIn, msgVars, streamVars, attrVars>>

\* one turn of the loop: next() is called, and the loop body runs on the
\* badge it returns or the loop is left when it returns None
IterBadgesNext ==
    /\ valKind = "badges"
    /\ valOut # None
    /\ ~valOut[1].ended
    /\ LET step == BadgesIterNext(valOut[1].iter)
       IN  valOut' = Some([iter |-> step.iter,
                           yielded |-> valOut[1].yielded \o step.item,
                           ended |-> ~IsSome(step.item)])
    /\ UNCHANGED <<valKind, valIn, msgVars, streamVars, attrVars>>

\* FollowersOnly::from_str on the value of a followers-only tag, in a build
\* with or without overflow checks
DecodeFollowersOnly ==
    /\ valKind = "followers"
    /\ valOut = None
    /\ \E overflow_checks \in BOOLEAN :
           valOut' = Some(FollowersOnlyFromStr(valIn, overflow_checks))
    /\ UNCHANGED <<valKind, valIn, msgVars, streamVars, attrVars>>

\* NoticeType::from_str on the value of a msg-id tag
DecodeNoticeType ==
    /\ valKind = "notice"
    /\ valOut = None
    /\ valOut' = Some([kind |-> "Ok", value |-> NoticeTypeFromStr(valIn)])
    /\ UNCHANGED <<valKind, valIn, msgVars, streamVars, attrVars>>

NextValue ==
    \/ DecodeEmotes
    \/ DecodeBadge
    \/ IterBadgesNew
    \/ IterBadgesNext
    \/ DecodeFollowersOnly
    \/ DecodeNoticeType

SpecValue == InitValue /\ [][NextValue]_vars

\* the value of kind k has been decoded
ValueDecoded(k) == valKind = k /\ IsSome(valOut)

----------------------------------------------------------------------------
(* Properties of the emote and badge decoders *)

EmoteIdParses(e) == UsizeFromStr(BeforeFirst(e, ":")).ok

\* the '/'-separated entries of the emotes tag whose id is a number
EmoteEntries == SelectSeq(Split(valIn, "/"), EmoteIdParses)

MsgRangeParses(t) == IsSome(MsgRangeFromStr(t))

\* the start-end pairs among the ','-separated texts after the ':' of an entry
EmoteRanges(e) ==
    LET good == SelectSeq(Split(AfterFirst(e, ":"), ","), MsgRangeParses)
    IN  [i \in 1..Len(good) |-> MsgRangeFromStr(good[i])[1]]

\* C13: an emotes tag decodes to one Emote per '/'-separated entry, in
\* order, each with the numeric id before its ':' and the ','-separated
\* start-end pairs after it, in order.
C13_EmotesInOrder ==
    ValueDecoded("emotes")
    => /\ Len(valOut[1]) = Len(EmoteEntries)
       /\ \A k \in 1..Len(EmoteEntries) :
              /\ valOut[1][k].id = UsizeFromStr(BeforeFirst(EmoteEntries[k], ":")).v
              /\ valOut[1][k].ranges = EmoteRanges(EmoteEntries[k])

C13_Witness ==
    /\ ValueDecoded("emotes")
    /\ valIn = <<"2", "5", ":", "0", "-", "4", ",", "6", "-", "1", "0", "/", "3", "3", ":", "1", "2", "-", "1", "9">>
    /\ valOut[1] = <<[id |-> 25, ranges |-> <<[start |-> 0, end |-> 4],
                                              [start |-> 6, end |-> 10]>>],
                     [id |-> 33, ranges |-> <<[start |-> 12, end |-> 19]>>]>>

\* the name and the data of a badge text
BadgeName == BeforeFirst(valIn, "/")
BadgeData == BeforeFirst(AfterFirst(valIn, "/"), "/")

IsNumber(t) == t # <<>> /\ \A i \in 1..Len(t) : t[i] \in DOMAIN DigitValue

\* a tier digit followed by a zero-padded month group
IsTierForm(t) == IsNumber(t) /\ Len(t) = 4 /\ t[1] \in {"1", "2", "3"}

\* the decoded badge read as a variant carrying numbers: the kind names the
\* variant and the data text is the number it carries
BadgeAsVariant(badge) ==
    CASE badge.kind.variant = "Subscriber" ->
           [variant |-> "NoTierSubscriber", months |-> DecimalValue(badge.data)]
      [] badge.kind.variant = "Bits" ->
           [variant |-> "Bits", bits |-> DecimalValue(badge.data)]
      [] badge.kind.variant = "Unknown" ->
           [variant |-> "Unknown", name |-> badge.kind.name,
            number |-> DecimalValue(badge.data)]
      [] OTHER -> [variant |-> badge.kind.variant]

\* C14: "subscriber/N" decodes to NoTierSubscriber(N), a subscriber value
\* made of a tier digit and a zero-padded month group to
\* TierSubscriber(tier, months), "bits/N" to Bits(N), and an unrecognized
\* name to Unknown carrying the name and the trailing number.
C14_BadgeVariants ==
    ValueDecoded("badge") /\ IsSome(Find(valIn, "/")) /\ IsNumber(BadgeData)
    => /\ IsSome(valOut[1])
       /\ LET decoded == BadgeAsVariant(valOut[1][1])
          IN  /\ BadgeName = <<"s", "u", "b", "s", "c", "r", "i", "b", "e", "r">> /\ ~IsTierForm(BadgeData)
                 => decoded = [variant |-> "NoTierSubscriber",
                               months |-> DecimalValue(BadgeData)]
              /\ BadgeName = <<"s", "u", "b", "s", "c", "r", "i", "b", "e", "r">> /\ IsTierForm(BadgeData)
                 => decoded = [variant |-> "TierSubscriber",
                               tier |-> DigitValue[BadgeData[1]],
                               months |-> DecimalValue(Tail(BadgeData))]
              /\ BadgeName = <<"b", "i", "t", "s">>
                 => decoded = [variant |-> "Bits", bits |-> DecimalValue(BadgeData)]
              /\ BadgeName \notin KnownBadgeNames
                 => decoded = [variant |-> "Unknown",
                               name |-> BadgeName,
                               number |-> DecimalValue(BadgeData)]

\* C15: Badge::parse returns a badge exactly when the input contains a
\* '/'; its kind is the known kind of the name before the first '/', or
\* Unknown(name) for a name outside the eleven known ones; kind_raw() is
\* that name; the data is the text between the first and the second '/'.
C15_BadgeParse ==
    ValueDecoded("badge")
    => /\ IsSome(valOut[1]) <=> IsSome(Find(valIn, "/"))
       /\ IsSome(valOut[1])
          => LET badge == valOut[1][1]
             IN  /\ badge.kind.variant = "Unknown" <=> BadgeName \notin KnownBadgeNames
                 /\ badge.kind.variant = "Unknown" => badge.kind.name = BadgeName
                 /\ BadgeKindRaw(badge) = BadgeName
                 /\ badge.data = BadgeData

C15_Witness ==
    /\ ValueDecoded("badge")
    /\ valIn = <<"g", "l", "o", "b", "a", "l", "_", "m", "o", "d", "/", "1", "/", "x">>
    /\ valOut[1] = Some([kind |-> [variant |-> "GlobalMod"], data |-> <<"1">>])
    /\ BadgeKindRaw(valOut[1][1]) = <<"g", "l", "o", "b", "a", "l", "_", "m", "o", "d">>

\* C16: iterating a comma-separated badge list with BadgesIter yields every
\* well-formed badge, in order: the sequence parse_badges returns.  A
\* malformed item does not hide the well-formed items after it.
C16_IterYieldsAll ==
    ValueDecoded("badges") /\ valOut[1].ended
    => valOut[1].yielded = ParseBadges(valIn)

----------------------------------------------------------------------------
(* Properties of the tag value decoders *)

\* the digits of a day count, a leading '+' put aside
DayDigits == IF Len(valIn) >= 1 /\ valIn[1] = "+" THEN Tail(valIn) ELSE valIn

\* the text denotes a positive integer
IsPositiveDays == IsNumber(DayDigits) /\ \E i \in 1..Len(DayDigits) : DayDigits[i] # "0"

\* C17: FollowersOnly::from_str returns Disabled for "-1", All for "0",
\* Limit(N * 86400 seconds) for a positive integer N and an error for every
\* other text; a Limit never has a zero duration.
C17_FollowersOnly ==
    ValueDecoded("followers")
    => LET r == valOut[1]
       IN  /\ valIn = <<"-", "1">> => r = [kind |-> "Ok", value |-> [variant |-> "Disabled"]]
           /\ valIn = <<"0">> => r = [kind |-> "Ok", value |-> [variant |-> "All"]]
           /\ IsPositiveDays
              => /\ r.kind = "Ok"
                 /\ r.value.variant = "Limit"
                 /\ Len(DayDigits) <= 4
                    => r.value.secs = U64(DecimalValue(DayDigits) * SECS_PER_DAY)
           /\ valIn \notin {<<"-", "1">>, <<"0">>} /\ ~IsPositiveDays => r.kind = "Err"
           /\ r.kind = "Ok" /\ r.value.variant = "Limit" => r.value.secs # U64(0)

\* the twelve notice names and their variants
NoticeVocabulary ==
    {<<<<"s", "u", "b">>, "Sub">>,
     <<<<"r", "e", "s", "u", "b">>, "Resub">>,
     <<<<"s", "u", "b", "g", "i", "f", "t">>, "SubGift">>,
     <<<<"a", "n", "o", "n", "s", "u", "b", "g", "i", "f", "t">>, "AnonSubGift">>,
     <<<<"s", "u", "b", "m", "y", "s", "t", "e", "r", "y", "g", "i", "f", "t">>, "SubMysteryGift">>,
     <<<<"g", "i", "f", "t", "p", "a", "i", "d", "u", "p", "g", "r", "a", "d", "e">>, "GiftPaidUpgrade">>,
     <<<<"r", "e", "w", "a", "r", "d", "g", "i", "f", "t">>, "RewardGift">>,
     <<<<"a", "n", "o", "n", "g", "i", "f", "t", "p", "a", "i", "d", "u", "p", "g", "r", "a", "d", "e">>, "AnonGiftPaidUpgrade">>,
     <<<<"r", "a", "i", "d">>, "Raid">>,
     <<<<"u", "n", "r", "a", "i", "d">>, "Unraid">>,
     <<<<"r", "i", "t", "u", "a", "l">>, "Ritual">>,
     <<<<"b", "i", "t", "s", "b", "a", "d", "g", "e", "t", "i", "e", "r">>, "BitsBadgeTier">>}

\* C19: decoding a msg-id value as NoticeType returns the variant of the
\* name for the twelve lowercase names and Unknown with the verbatim text
\* for every other value; it never returns an error.
C19_NoticeType ==
    ValueDecoded("notice")
    => /\ valOut[1].kind = "Ok"
       /\ \A p \in NoticeVocabulary :
              valIn = p[1] => valOut[1].value = [variant |-> p[2]]
       /\ valIn \notin {p[1] : p \in NoticeVocabulary}
          => valOut[1].value = [variant |-> "Unknown", text |-> valIn]

C19_Witness ==
    /\ ValueDecoded("notice")
    /\ valIn = <<"a", "n", "o", "n", "s", "u", "b", "g", "i", "f", "t">>
    /\ valOut[1] = [kind |-> "Ok", value |-> [variant |-> "AnonSubGift"]]

----------------------------------------------------------------------------
(* Tag accessors of the records *)

\* Tags::get_as_bool: the tag is there and its value is "1"
TagsGetAsBool(raw, tags, key) == TagsGet(raw, tags, key) = Some(<<"1">>)

RoomStateIsEmoteOnly(r) == TagsGetAsBool(r.raw.bytes, r.tags, "emote-only")

\* RoomState::is_r9k reading the emote-only tag
RoomStateIsR9kOtherTag(r) == TagsGetAsBool(r.raw.bytes, r.tags, "emote-only")

RoomStateIsR9k(r) == TagsGetAsBool(r.raw.bytes, r.tags, "r9k")

RoomStateIsSubsOnly(r) == TagsGetAsBool(r.raw.bytes, r.tags, "subs-only")

UserStateIsModerator(r) == TagsGetAsBool(r.raw.bytes, r.tags, "mod")

UserNoticeIsModerator(r) == TagsGetAsBool(r.raw.bytes, r.tags, "mod")

\* UserNotice::msg_param_sub_plan
UserNoticeMsgParamSubPlan(r) ==
    LET got == TagsGet(r.raw.bytes, r.tags, "msg-param-sub-plan")
    IN  IF ~IsSome(got) THEN None
        ELSE Some(CASE got[1] = <<"P", "r", "i", "m", "e">> -> [variant |-> "Prime"]
                    [] got[1] = <<"T", "i", "e", "r", "1">> -> [variant |-> "Tier1"]
                    [] got[1] = <<"T", "i", "e", "r", "2">> -> [variant |-> "Tier2"]
                    [] got[1] = <<"T", "i", "e", "r", "3">> -> [variant |-> "Tier3"]
                    [] OTHER -> [variant |-> "Unknown", text |-> got[1]])

----------------------------------------------------------------------------
(* SpecTags: a tagged line is decoded into a record, whose tag accessors   *)
(* are then read.                                                          *)

BoolTagKeys == {"emote-only", "r9k", "subs-only", "mod"}

BoolTagValues == {<<>>, <<"0">>, <<"1">>, <<"1", "1">>, <<"t", "r", "u", "e">>}

SubPlanTagValues ==
    {<<"P", "r", "i", "m", "e">>, <<"1", "0", "0", "0">>, <<"2", "0", "0", "0">>, <<"3", "0", "0", "0">>,
     <<"T", "i", "e", "r", "1">>, <<"T", "i", "e", "r", "2">>, <<"T", "i", "e", "r", "3">>,
     <<"p", "r", "i", "m", "e">>, <<>>, <<"1", "0", "0", "0", "0">>}

\* no tag, one tag, or two tags of different keys
AccessorTagLists ==
    {<<>>}
    \cup {<<Tag(k, v)>> : k \in BoolTagKeys, v \in BoolTagValues}
    \cup {<<Tag(k[1], v1), Tag(k[2], v2)>> :
            k \in {p \in BoolTagKeys \X BoolTagKeys : p[1] # p[2]},
            v1 \in BoolTagValues, v2 \in BoolTagValues}
    \cup {<<Tag("msg-param-sub-plan", v)>> : v \in SubPlanTagValues}
    \cup {<<Tag("mod", <<"1">>), Tag("msg-param-sub-plan", v)>> : v \in SubPlanTagValues}

U64TagKeys == {"bits", "room-id", "tmi-sent-ts", "user-id"}

\* numbers, signed and malformed texts, and the texts around the u64 limit
U64TagValues ==
    {<<>>, <<"0">>, <<"4", "2">>, <<"+", "7">>, <<"-", "1">>, <<"x">>, <<"4", "x">>,
     <<"1", "8", "4", "4", "6", "7", "4", "4", "0", "7", "3", "7", "0", "9", "5", "5", "1", "6", "1", "5">>,
     <<"1", "8", "4", "4", "6", "7", "4", "4", "0", "7", "3", "7", "0", "9", "5", "5", "1", "6", "1", "6">>}

ColorTagValues == {<<>>, <<"#", "0", "D", "4", "2", "0", "0">>, <<"#", "x">>}

\* the tags read by the typed accessors of Privmsg
ParsedTagLists ==
    {<<>>}
    \cup {<<Tag(k, v)>> : k \in U64TagKeys, v \in U64TagValues}
    \cup {<<Tag("color", v)>> : v \in ColorTagValues}
    \cup {<<Tag("bits", v1), Tag("user-id", v2)>> : v1 \in U64TagValues, v2 \in U64TagValues}

EmoteSetsTagValues ==
    {<<"0">>, <<"0", ",", "3", "3">>, <<"3", "3">>, <<"3", "3", ",", "5", "0">>, <<>>}

SlowTagValues ==
    {<<>>, <<"0">>, <<"3", "0">>, <<"x">>, <<"+", "5">>, <<"0", "0">>, <<"-", "3">>}

BACKSLASH == "\\"

EscapeChars == {BACKSLASH, "s", ":", "n"}

\* every text of up to MaxData of the characters escapes are made of
SystemMsgTexts == UNION {SeqsOfLen(EscapeChars, n) : n \in 0..MaxData}

TaggedLines ==
    {IrcMessage(c, tags, FALSE, TRUE, None) :
        c \in {"USERSTATE", "ROOMSTATE", "USERNOTICE"}, tags \in AccessorTagLists}
    \cup {IrcMessage("PRIVMSG", tags, TRUE, TRUE, Some(<<"x">>)) : tags \in ParsedTagLists}
    \cup {IrcMessage("GLOBALUSERSTATE", <<Tag("emote-sets", v)>>, FALSE, FALSE, None) :
            v \in EmoteSetsTagValues}
    \cup {IrcMessage("GLOBALUSERSTATE", <<Tag("user-id", <<"4", "2">>)>>, FALSE, FALSE, None)}
    \cup {IrcMessage("ROOMSTATE", <<Tag("slow", v)>>, FALSE, TRUE, None) : v \in SlowTagValues}
    \cup {IrcMessage("USERNOTICE", <<Tag("system-msg", v)>>, FALSE, TRUE, None) :
            v \in SystemMsgTexts}

InitTags ==
    /\ msg \in TaggedLines
    /\ target = "none"
    /\ res = NoResult
    /\ owned = None
    /\ input = <<>> /\ pos = 0 /\ out = <<>> /\ crashed = FALSE
    /\ attrIn = <<>> /\ attrOut = <<>>
    /\ valKind = "none" /\ valIn = <<>> /\ valOut = <<>>

SpecTags == InitTags /\ [][Next]_vars

\* the line was decoded into a record of type t
DecodedOk(t) == target = t /\ res.kind = "Ok"

\* the line carries the tag
HasTag(key) == \E i \in 1..Len(msg.tags) : msg.tags[i].key = key

\* the line carries the tag with this value
TagIs(key, value) ==
    \E i \in 1..Len(msg.tags) :
        msg.tags[i].key = key /\ Slice(msg.raw, msg.tags[i].val) = value

\* C18: the sub plan of a notice is Prime for "Prime", Tier1, Tier2 and
\* Tier3 for "1000", "2000" and "3000", Unknown with the verbatim text for
\* any other value and None without the tag; UserNotice::msg_param_sub_plan
\* and SubPlan's FromStr agree on every text.
C18_SubPlan ==
    DecodedOk("UserNotice")
    => LET plan == UserNoticeMsgParamSubPlan(res.rec)
       IN  /\ ~HasTag("msg-param-sub-plan") => plan = None
           /\ TagIs("msg-param-sub-plan", <<"P", "r", "i", "m", "e">>) => plan = Some([variant |-> "Prime"])
           /\ TagIs("msg-param-sub-plan", <<"1", "0", "0", "0">>) => plan = Some([variant |-> "Tier1"])
           /\ TagIs("msg-param-sub-plan", <<"2", "0", "0", "0">>) => plan = Some([variant |-> "Tier2"])
           /\ TagIs("msg-param-sub-plan", <<"3", "0", "0", "0">>) => plan = Some([variant |-> "Tier3"])
           /\ \A v \in SubPlanTagValues :
                  TagIs("msg-param-sub-plan", v)
                  => /\ plan = Some(SubPlanFromStr(v))
                     /\ v \notin {<<"P", "r", "i", "m", "e">>, <<"1", "0", "0", "0">>, <<"2", "0", "0", "0">>, <<"3", "0", "0", "0">>}
                        => plan = Some([variant |-> "Unknown", text |-> v])

\* C20: the boolean accessors return true exactly when their tag is present
\* with the value "1", and false when it is absent, empty, "0" or anything
\* else.
C20_BoolAccessors ==
    /\ DecodedOk("RoomState")
       => /\ RoomStateIsEmoteOnly(res.rec) <=> TagIs("emote-only", <<"1">>)
          /\ RoomStateIsR9k(res.rec) <=> TagIs("r9k", <<"1">>)
          /\ RoomStateIsSubsOnly(res.rec) <=> TagIs("subs-only", <<"1">>)
    /\ DecodedOk("UserState")
       => (UserStateIsModerator(res.rec) <=> TagIs("mod", <<"1">>))
    /\ DecodedOk("UserNotice")
       => (UserNoticeIsModerator(res.rec) <=> TagIs("mod", <<"1">>))

C20_Witness ==
    /\ DecodedOk("RoomState")
    /\ TagIs("r9k", <<"1">>)
    /\ TagIs("emote-only", <<"0">>)
    /\ RoomStateIsR9k(res.rec)
    /\ ~RoomStateIsEmoteOnly(res.rec)
    /\ ~RoomStateIsSubsOnly(res.rec)

----------------------------------------------------------------------------
(* The offsets a Privmsg record stores *)

\* C26: after a successful Privmsg::from_irc the stored data range has
\* start <= end and lies inside the trailing-data range of the line; a
\* stored CTCP command range starts one byte after the start of the trailing
\* data and ends one byte, the separating space, before the stored data
\* range, which then ends one byte before the end of the trailing data.
C26_PrivmsgOffsets ==
    Decoded("Privmsg") /\ res.kind = "Ok"
    => LET orig == msg.data[1]
           data == res.rec.data
       IN  /\ data.start <= data.end
           /\ orig.start <= data.start
           /\ data.end <= orig.end
           /\ IsSome(res.rec.ctcp)
              => /\ res.rec.ctcp[1].start = orig.start + 1
                 /\ res.rec.ctcp[1].end + 1 = data.start
                 /\ data.end = orig.end - 1

C26_Witness ==
    /\ Decoded("Privmsg") /\ res.kind = "Ok"
    /\ IsSome(res.rec.ctcp)
    /\ TrailingData = <<SOH>> \o CTCP_ACTION \o <<SP, "x", SP, "x", SOH>>
    /\ res.rec.ctcp[1].end - res.rec.ctcp[1].start = 6
    /\ res.rec.data.end - res.rec.data.start = 3

\* C29: a PRIVMSG whose trailing data does not both begin and end with the
\* control byte keeps its data range: data() is the trailing data verbatim
\* and ctcp() is None.
C29_PlainDataUnchanged ==
    (Decoded("Privmsg") /\ IsPrivmsgLine /\ ~Wrapped(TrailingData))
    => /\ res.kind = "Ok"
       /\ res.rec.data = msg.data[1]
       /\ PrivmsgData(res.rec) = TrailingData
       /\ PrivmsgCtcp(res.rec) = None

C29_Witness ==
    /\ Decoded("Privmsg") /\ IsPrivmsgLine
    /\ TrailingData = <<SOH, "u1", "u2">>
    /\ res.kind = "Ok"
    /\ PrivmsgData(res.rec) = <<SOH, "u1", "u2">>
    /\ PrivmsgCtcp(res.rec) = None

----------------------------------------------------------------------------
(* GlobalUserState *)

\* GlobalUserState::emote_sets
GlobalUserStateEmoteSets(r) ==
    LET got == TagsGet(r.raw.bytes, r.tags, "emote-sets")
    IN  IF IsSome(got) THEN Split(got[1], ",") ELSE <<<<"0">>>>

\* a GLOBALUSERSTATE line was decoded as GlobalUserState
GlobalLineDecoded == Decoded("GlobalUserState") /\ msg.command = "GLOBALUSERSTATE"

\* C22: a GLOBALUSERSTATE line without tags decodes successfully, with
\* has_tags() false, emote_sets() the single set 0 and user_id() and
\* display_name() absent; for every record has_tags() is true exactly when
\* the line carried at least one tag.
C22_NoTags ==
    GlobalLineDecoded
    => /\ msg.tags = <<>>
          => /\ res.kind = "Ok"
             /\ ~GlobalUserStateHasTags(res.rec)
             /\ GlobalUserStateEmoteSets(res.rec) = <<<<"0">>>>
             /\ AsDeref(res.rec.user_id) = None
             /\ AsDeref(res.rec.display_name) = None
       /\ res.kind = "Ok"
          => (GlobalUserStateHasTags(res.rec) <=> Len(msg.tags) >= 1)

C22_Witness ==
    /\ GlobalLineDecoded
    /\ msg.tags = <<>>
    /\ res.kind = "Ok"
    /\ ~GlobalUserStateHasTags(res.rec)
    /\ GlobalUserStateEmoteSets(res.rec) = <<<<"0">>>>

\* C24: GlobalUserState::color() is white when the color tag is absent or
\* empty, and construction succeeds in both cases; with a valid #RRGGBB value
\* it is that 24-bit value.
C24_ColorDefault ==
    GlobalLineDecoded
    => /\ (~HasTag("color") \/ TagIs("color", <<>>))
          => res.kind = "Ok" /\ res.rec.color = 16777215
       /\ TagIs("color", <<"#", "0", "D", "4", "2", "0", "0">>)
          => res.kind = "Ok" /\ res.rec.color = 868864

C24_Witness ==
    /\ GlobalLineDecoded
    /\ TagIs("color", <<>>)
    /\ res.kind = "Ok"
    /\ res.rec.color = 16777215

----------------------------------------------------------------------------
(* Typed tag accessors *)

\* Tags::get_parsed::<u64>: absent, present and invalid, present and valid
TagsGetParsedU64(raw, tags, key) ==
    LET got == TagsGet(raw, tags, key)
    IN  IF IsSome(got) THEN Some(U64FromStr(got[1])) ELSE None

PrivmsgBits(r) == TagsGetParsedU64(r.raw.bytes, r.tags, "bits")

PrivmsgColor(r) == GetParsedColor(r)

\* Privmsg::room_id reading the user-id tag
PrivmsgRoomIdOtherTag(r) == TagsGetParsedU64(r.raw.bytes, r.tags, "user-id")

PrivmsgRoomId(r) == TagsGetParsedU64(r.raw.bytes, r.tags, "room-id")

PrivmsgTmiSentTs(r) == TagsGetParsedU64(r.raw.bytes, r.tags, "tmi-sent-ts")

PrivmsgUserId(r) == TagsGetParsedU64(r.raw.bytes, r.tags, "user-id")

\* RoomState::is_slow_mode without the filter on the delay
RoomStateIsSlowModeNoFilter(r) ==
    LET parsed == TagsGetParsedU64(r.raw.bytes, r.tags, "slow")
    IN  IF IsSome(parsed) /\ parsed[1].ok THEN Some(parsed[1].v) ELSE None

\* RoomState::is_slow_mode: transpose, ok, flatten, filter(> 0)
RoomStateIsSlowMode(r) ==
    LET parsed == TagsGetParsedU64(r.raw.bytes, r.tags, "slow")
    IN  IF IsSome(parsed) /\ parsed[1].ok /\ parsed[1].v # U64(0)
        THEN Some(parsed[1].v)
        ELSE None

\* str::replace of a two-character pattern: the non-overlapping matches,
\* found from left to right, are replaced
RECURSIVE Replace(_, _, _)
Replace(s, from, to) ==
    IF Len(s) < 2 THEN s
    ELSE IF SubSeq(s, 1, 2) = from THEN to \o Replace(SubSeq(s, 3, Len(s)), from, to)
    ELSE <<s[1]>> \o Replace(Tail(s), from, to)

\* UserNotice::system_msg
UserNoticeSystemMsg(r) ==
    LET got == TagsGet(r.raw.bytes, r.tags, "system-msg")
    IN  IF ~IsSome(got) THEN None
        ELSE Some(Replace(Replace(Replace(Replace(Replace(got[1],
                      <<BACKSLASH, "s">>, <<SP>>),
                      <<BACKSLASH, "r">>, <<"CR">>),
                      <<BACKSLASH, "n">>, <<"LF">>),
                      <<BACKSLASH, BACKSLASH>>, <<BACKSLASH>>),
                      <<BACKSLASH, ":">>, <<":">>))

----------------------------------------------------------------------------
(* Properties of the typed tag accessors *)

\* the value of the tag of this key on the decoded line
TagValueOf(key) ==
    LET i == CHOOSE i \in 1..Len(msg.tags) : msg.tags[i].key = key
    IN  Slice(msg.raw, msg.tags[i].val)

\* the digits of a number text, a leading '+' put aside
NumberDigits(v) == IF Len(v) >= 1 /\ v[1] = "+" THEN Tail(v) ELSE v

U64MaxText ==
    <<"1", "8", "4", "4", "6", "7", "4", "4", "0", "7", "3", "7", "0", "9", "5", "5", "1", "6", "1", "5">>

\* a decimal text of 20 digits that is no larger than the largest u64
AtMostU64Max(d) ==
    ~\E i \in 1..20 :
        /\ \A j \in 1..(i - 1) : d[j] = U64MaxText[j]
        /\ DigitValue[d[i]] > DigitValue[U64MaxText[i]]

\* the text is a decimal number that fits 64 bits
IsU64Text(v) ==
    /\ IsNumber(NumberDigits(v))
    /\ \/ Len(NumberDigits(v)) < 20
       \/ Len(NumberDigits(v)) = 20 /\ AtMostU64Max(NumberDigits(v))

\* what a typed accessor has to return for its tag: None without the tag,
\* Some(Err) for a value that is no u64, Some(Ok(v)) for one that is
IsTriState(got, key) ==
    /\ got = None <=> ~HasTag(key)
    /\ HasTag(key)
       => /\ got[1].ok <=> IsU64Text(TagValueOf(key))
          /\ IsU64Text(TagValueOf(key)) /\ Len(NumberDigits(TagValueOf(key))) <= 9
             => got[1].v = U64(DecimalValue(NumberDigits(TagValueOf(key))))

\* C21: the typed accessors built on get_parsed are tri-state: None exactly
\* when the tag is absent, Some(Err) exactly when it is present and does not
\* parse, Some(Ok(v)) exactly when it is present and parses to v.
C21_TriState ==
    DecodedOk("Privmsg")
    => /\ IsTriState(PrivmsgBits(res.rec), "bits")
       /\ IsTriState(PrivmsgRoomId(res.rec), "room-id")
       /\ IsTriState(PrivmsgTmiSentTs(res.rec), "tmi-sent-ts")
       /\ IsTriState(PrivmsgUserId(res.rec), "user-id")
       /\ PrivmsgColor(res.rec) = None <=> ~HasTag("color")
       /\ TagIs("color", <<"#", "0", "D", "4", "2", "0", "0">>)
          => PrivmsgColor(res.rec) = Some([ok |-> TRUE, rgb |-> 868864])
       /\ (TagIs("color", <<>>) \/ TagIs("color", <<"#", "x">>))
          => IsSome(PrivmsgColor(res.rec)) /\ ~PrivmsgColor(res.rec)[1].ok

C21_Witness ==
    /\ DecodedOk("Privmsg")
    /\ TagIs("bits", <<"4", "x">>)
    /\ TagIs("user-id", <<"4", "2">>)
    /\ ~HasTag("room-id")
    /\ PrivmsgRoomId(res.rec) = None
    /\ IsSome(PrivmsgBits(res.rec)) /\ ~PrivmsgBits(res.rec)[1].ok
    /\ PrivmsgUserId(res.rec) = Some([ok |-> TRUE, v |-> U64(42)])

\* C23: emote_sets() of every GlobalUserState record is a non-empty list
\* that contains the set "0".
C23_EmoteSetsHasZero ==
    DecodedOk("GlobalUserState")
    => LET sets == GlobalUserStateEmoteSets(res.rec)
       IN  /\ sets # <<>>
           /\ \E i \in 1..Len(sets) : sets[i] = <<"0">>

\* the escape sequences decoded from left to right, every character being
\* consumed by at most one of them
RECURSIVE Unescape(_)
Unescape(s) ==
    IF s = <<>> THEN <<>>
    ELSE IF Len(s) >= 2 /\ s[1] = BACKSLASH /\ s[2] \in {"s", "r", "n", ":", BACKSLASH}
    THEN <<CASE s[2] = "s" -> SP
             [] s[2] = "r" -> "CR"
             [] s[2] = "n" -> "LF"
             [] s[2] = ":" -> ":"
             [] OTHER -> BACKSLASH>> \o Unescape(SubSeq(s, 3, Len(s)))
    ELSE <<s[1]>> \o Unescape(Tail(s))

\* C25: system_msg() is the system-msg value with its escape sequences
\* decoded from left to right, each character consumed by at most one
\* sequence, so that an escaped backslash followed by s stays a backslash
\* followed by s; it is None without the tag.
C25_SystemMsg ==
    DecodedOk("UserNotice")
    => /\ ~HasTag("system-msg") => UserNoticeSystemMsg(res.rec) = None
       /\ HasTag("system-msg")
          => UserNoticeSystemMsg(res.rec) = Some(Unescape(TagValueOf("system-msg")))

\* C30: is_slow_mode() is Some(n) exactly when the slow tag is present,
\* parses as an unsigned integer n and n > 0; it is None when the tag is
\* absent, does not parse or is 0.
C30_SlowMode ==
    DecodedOk("RoomState")
    => LET slow == RoomStateIsSlowMode(res.rec)
           positive == /\ HasTag("slow")
                       /\ IsU64Text(TagValueOf("slow"))
                       /\ \E i \in 1..Len(TagValueOf("slow")) :
                              TagValueOf("slow")[i] \in DOMAIN DigitValue \ {"0"}
       IN  /\ IsSome(slow) <=> positive
           /\ positive /\ Len(NumberDigits(TagValueOf("slow"))) <= 9
              => slow = Some(U64(DecimalValue(NumberDigits(TagValueOf("slow")))))

C30_Witness ==
    /\ DecodedOk("RoomState")
    /\ TagIs("slow", <<"3", "0">>)
    /\ RoomStateIsSlowMode(res.rec) = Some(U64(30))

----------------------------------------------------------------------------
(* Arithmetic and ranges *)

\* the product of a u64 and the seconds of a day, computed in a width that
\* holds it
ExactSeconds(x) == MulAdd(x \o <<0, 0, 0>>, SECS_PER_DAY, 0).v

\* C27: for every decimal text that denotes a u64 N > 0,
\* FollowersOnly::from_str returns the limit of exactly N * 86400 seconds:
\* the multiplication neither overflows nor wraps nor aborts.
C27_NoOverflow ==
    (ValueDecoded("followers") /\ U64FromStr(valIn).ok /\ U64FromStr(valIn).v # U64(0))
    => /\ valOut[1].kind = "Ok"
       /\ valOut[1].value.variant = "Limit"
       /\ valOut[1].value.secs \o <<0, 0, 0>> = ExactSeconds(U64FromStr(valIn).v)

\* C28: every range the attribution decoder returns has start <= end; a
\* start-end text whose start is greater than its end is not returned.
C28_RangesOrdered ==
    attrOut.kind # "None"
    => \A k \in 1..Len(attrOut.items) :
           attrOut.items[k].range.start <= attrOut.items[k].range.end

====
